---------------------------- MODULE Spec2Model ----------------------------
(***************************************************************************)
(* QDR_Table_Extractor: the PDF parser selector (PdfParser), the native    *)
(* text reconstruction (TextualParser, utils.parsing_utils) and the OCR    *)
(* reconstruction (VisualParser), as state machines.                       *)
(*                                                                         *)
(* Text is a sequence of characters, each character a one-element string   *)
(* (an unprintable character is written by its ASCII name, "BEL").         *)
(* Raw word coordinates are counted in half points, so that round() in     *)
(* cell_to_tuple has halves to round; everything after cell_to_tuple is    *)
(* in whole points, as in the code.                                        *)
(***************************************************************************)
EXTENDS Integers, Sequences, FiniteSets, TLC

VARIABLES
    \* ---- the coordinate binner on its own (TextualParser.group_coords / map_to_bin)
    bin_pc,        \* "input" | "grouped" | "mapped"
    bin_values,    \* the coordinate list handed to group_coords
    bin_groups,    \* the local `groups` of group_coords at its return
    bin_bins,      \* the list group_coords returned
    bin_val,       \* the value handed to map_to_bin
    bin_result,    \* what map_to_bin returned for it
    bin_frame,     \* the frame get_binned_coords_dataframe makes of words with these x
    \* ---- the reconstruction of one page on its own (utils.parsing_utils, TextualParser)
    pg_pc,         \* "words" | "rows" | "binned" | "formatted"
    pg_words,      \* what page.extract_words() returned
    pg_rows,       \* the table extract_rows_from_page returned
    pg_df,         \* the frame get_binned_coords_dataframe returned
    pg_offset,     \* y_offset when the page is reached
    pg_grid,       \* the lines format_text_by_grid_position wrote, with their placements
    pg_text,       \* the page text it returned
    \* ---- PdfParser(file_path): the constructor, step by step
    pc,            \* where the constructor is
    file_path,     \* its argument
    error,         \* the exception that left the constructor, "none" while none has
    file_loaded,   \* whether _load_file has read the file
    n_pages,       \* pages of the loaded document
    n_tokens,      \* self.n_tokens
    native_attempted,  \* whether TextualParser(file) was called
    native_raised,     \* whether that call raised
    binary,        \* "none", or what _has_binary_encoding said: "binary" | "clean"
    \* ---- TextualParser (parse_pdf_and_format)
    tp_page,       \* pages the loop has been through
    tp_y_offset,   \* y_offset
    tp_local_pages_text,  \* the local pages_text
    tp_pages_text, \* self.pages_text
    tp_raw_text,   \* self.raw_text
    tp_log,        \* per page the loop went through: whether it failed, its words,
                   \* the y_index column of its frame, y_offset after it
    \* ---- VisualParser (read_images_from_file, read_text_from_images)
    vp_images,     \* len(self.images)
    vp_page,       \* images the loop has been through
    vp_pages_added,    \* pages_added
    vp_text,       \* the local text
    vp_page_texts, \* the local page_texts
    vp_pages_text, \* self.pages_text
    vp_raw_text,   \* self.raw_text
    vp_log,        \* per image the loop went through: whether it failed, what OCR gave
    \* ---- what the constructor leaves on the PdfParser
    parser,        \* "none" | "TextualParser" | "VisualParser"
    parse_method,
    pages_text,
    raw_text,
    preview,
    \* ---- extract_rows_from_page on its own (utils.parsing_utils)
    rw_pc,         \* "words" | "rows"
    rw_words,      \* what page.extract_words() returned
    rw_cells,      \* raw_cells: per line its cells, each the list of its words
    rw_table,      \* table: per line the tuples of its cells
    \* ---- TableExtractor.extract_from_pages
    te_pc,         \* "pages" | "returned"
    te_n_pages,    \* len(pages_text)
    te_i,          \* pages the loop has been through
    te_previous_column_names,  \* previous_column_names
    te_all_tables, \* all_tables
    te_log         \* per page: the hint passed to extract_from_page, the tables it returned

binVars == <<bin_pc, bin_values, bin_groups, bin_bins, bin_val, bin_result, bin_frame>>

pgVars == <<pg_pc, pg_words, pg_rows, pg_df, pg_offset, pg_grid, pg_text>>

ctlVars == <<pc, file_path, error, file_loaded, n_pages, n_tokens,
             native_attempted, native_raised, binary>>

tpVars == <<tp_page, tp_y_offset, tp_local_pages_text, tp_pages_text, tp_raw_text, tp_log>>

vpVars == <<vp_images, vp_page, vp_pages_added, vp_text, vp_page_texts,
            vp_pages_text, vp_raw_text, vp_log>>

outVars == <<parser, parse_method, pages_text, raw_text, preview>>

mainVars == <<ctlVars, tpVars, vpVars, outVars>>

rowVars == <<rw_pc, rw_words, rw_cells, rw_table>>

teVars == <<te_pc, te_n_pages, te_i, te_previous_column_names, te_all_tables, te_log>>

vars == <<binVars, pgVars, mainVars, rowVars, teVars>>

(***************************************************************************)
(* Bounds of the model.                                                    *)
(***************************************************************************)
MaxCoords == 3      \* longest coordinate list handed to group_coords
MaxCoord == 11      \* largest coordinate
NegCoords == 2      \* coordinates go down to -NegCoords
MaxWords == 2       \* most words on a page reconstructed on its own
MaxPages == 3       \* most pages of a document
MaxTokens == 11     \* largest token count
MaxRowWords == 3    \* words of a page handed to extract_rows_from_page on its own
MaxTablePages == 3  \* page texts handed to extract_from_pages
LongLen == 120      \* characters of the long word

(***************************************************************************)
(* Program constants.                                                      *)
(***************************************************************************)
word_spacing == 4
inaccuracy_threshold == 5
map_tolerance == 5
format__column_spacing == 6
format__min_gap == 2
format__line_length == 200
max_pages_ingestion == 10
extra_image_pages == 5
token_threshold == 10
preview_chars == 1500
row_threshold == 5
vertical_threshold_arg == 5
horizontal_threshold_arg == 10

(***************************************************************************)
(* Helpers: Python built-ins.                                              *)
(***************************************************************************)
Abs(x) == IF x < 0 THEN 0 - x ELSE x

Max2(a, b) == IF a >= b THEN a ELSE b

Min2(a, b) == IF a <= b THEN a ELSE b

RECURSIVE Sum(_)
Sum(s) == IF s = <<>> THEN 0 ELSE Head(s) + Sum(Tail(s))

\* int(x / n) for n > 0: Python's int() truncates toward zero.
IntTrunc(s, n) == IF s >= 0 THEN s \div n ELSE 0 - ((0 - s) \div n)

\* list.insert at the place sorted() gives v: after every element <= v.
RECURSIVE InsertInt(_, _)
InsertInt(s, v) ==
    IF s = <<>> THEN <<v>>
    ELSE IF v < Head(s) THEN <<v>> \o s
    ELSE <<Head(s)>> \o InsertInt(Tail(s), v)

\* sorted(values) on numbers.
RECURSIVE SortedInts(_)
SortedInts(s) ==
    IF s = <<>> THEN <<>>
    ELSE InsertInt(SortedInts(SubSeq(s, 1, Len(s) - 1)), s[Len(s)])

Last(s) == s[Len(s)]

ButLast(s) == SubSeq(s, 1, Len(s) - 1)

(***************************************************************************)
(* TextualParser.group_coords and map_to_bin.                              *)
(***************************************************************************)
\* The loop with the gap taken from the running mean of the last group's
\* members: |val - mean(g)| > t, multiplied out by the group's size.
RECURSIVE group_loop_running_mean(_, _)
group_loop_running_mean(groups, vals) ==
    IF vals = <<>> THEN groups
    ELSE LET val == Head(vals) IN
         IF groups = <<>>
               \/ Abs(val * Len(Last(groups)) - Sum(Last(groups)))
                      > inaccuracy_threshold * Len(Last(groups))
         THEN group_loop_running_mean(Append(groups, <<val>>), Tail(vals))
         ELSE group_loop_running_mean(
                  Append(ButLast(groups), Append(Last(groups), val)), Tail(vals))

\* The loop of group_coords over the (sorted) values: a value opens a new
\* group when it is more than the threshold away from the LAST MEMBER of the
\* last group (groups[-1][-1]), and joins the last group otherwise.
RECURSIVE group_loop(_, _)
group_loop(groups, vals) ==
    IF vals = <<>> THEN groups
    ELSE LET val == Head(vals) IN
         IF groups = <<>> \/ Abs(val - Last(Last(groups))) > inaccuracy_threshold
         THEN group_loop(Append(groups, <<val>>), Tail(vals))
         ELSE group_loop(Append(ButLast(groups), Append(Last(groups), val)), Tail(vals))

\* The grouping loop without the sort before it.
group_members_unsorted(values) == group_loop(<<>>, values)

\* `groups` when group_coords returns.
group_members(values) == group_loop(<<>>, SortedInts(values))

\* The mean rounded down instead of toward zero.
bin_center_floor(g) == Sum(g) \div Len(g)

\* int(np.mean(g))
bin_center(g) == IntTrunc(Sum(g), Len(g))

group_coords(values) ==
    LET gs == group_members(values) IN [i \in 1..Len(gs) |-> bin_center(gs[i])]

\* map_to_bin with a tolerance one larger.
RECURSIVE map_to_bin_wide(_, _)
map_to_bin_wide(val, y_bins) ==
    IF y_bins = <<>> THEN val
    ELSE IF Abs(val - Head(y_bins)) <= map_tolerance + 1 THEN Head(y_bins)
    ELSE map_to_bin_wide(val, Tail(y_bins))

\* The first bin within 5 of val, the first bin of all when there is none.
map_to_bin_never_unchanged(val, y_bins) ==
    LET within == {k \in 1..Len(y_bins) : Abs(val - y_bins[k]) <= map_tolerance} IN
    IF y_bins = <<>> THEN val
    ELSE IF within = {} THEN y_bins[1]
    ELSE y_bins[CHOOSE k \in within : \A j \in within : k <= j]

\* The first bin within 5 of val, val itself when there is none.
RECURSIVE map_to_bin(_, _)
map_to_bin(val, y_bins) ==
    IF y_bins = <<>> THEN val
    ELSE IF Abs(val - Head(y_bins)) <= map_tolerance THEN Head(y_bins)
    ELSE map_to_bin(val, Tail(y_bins))

(***************************************************************************)
(* utils.parsing_utils: rows and cells of a page's words.  A raw word is a *)
(* record [text, x0, x1, top, bottom] with its coordinates in half points. *)
(***************************************************************************)
\* A threshold given in points, in the half points of the raw coordinates.
HalfPoints(points) == 2 * points

\* Python's round() of h half points: to the nearest integer, a tie to the
\* even one.
RoundHalfEven(h) ==
    LET lo == h \div 2 IN
    IF h % 2 = 0 THEN lo ELSE IF lo % 2 = 0 THEN lo ELSE lo + 1

\* sorted(items, key=...) given each item's key: the indices 1..n in the
\* order of a stable sort.
RECURSIVE InsertIdx(_, _, _)
InsertIdx(order, i, keys) ==
    IF order = <<>> THEN <<i>>
    ELSE IF keys[i] < keys[Head(order)] THEN <<i>> \o order
    ELSE <<Head(order)>> \o InsertIdx(Tail(order), i, keys)

RECURSIVE StableOrder(_, _)
StableOrder(keys, n) ==
    IF n = 0 THEN <<>> ELSE InsertIdx(StableOrder(keys, n - 1), n, keys)

\* The items as they come, without the sort.
NotSortedBy(items, keys) == items

SortedBy(items, keys) ==
    LET o == StableOrder(keys, Len(keys)) IN [k \in 1..Len(o) |-> items[o[k]]]

RECURSIVE lines_loop(_, _, _, _, _)
lines_loop(lines, current_line, current_y, ws, vertical_threshold) ==
    IF ws = <<>>
    THEN IF current_line # <<>> THEN Append(lines, current_line) ELSE lines
    ELSE LET word == Head(ws) IN
         IF current_line = <<>>
         THEN lines_loop(lines, <<word>>, word.top, Tail(ws), vertical_threshold)
         ELSE IF Abs(word.top - current_y) <= HalfPoints(vertical_threshold)
         THEN lines_loop(lines, Append(current_line, word), current_y, Tail(ws),
                         vertical_threshold)
         ELSE lines_loop(Append(lines, current_line), <<word>>, word.top, Tail(ws),
                         vertical_threshold)

group_words_into_lines(words, vertical_threshold) ==
    lines_loop(<<>>, <<>>, 0,
               SortedBy(words, [i \in 1..Len(words) |-> words[i].top]),
               vertical_threshold)

RECURSIVE cells_loop(_, _, _, _, _)
cells_loop(cells, current_cell, current_x, ws, horizontal_threshold) ==
    IF ws = <<>>
    THEN IF current_cell # <<>> THEN Append(cells, current_cell) ELSE cells
    ELSE LET word == Head(ws) IN
         IF current_cell = <<>>
         THEN cells_loop(cells, <<word>>, word.x0, Tail(ws), horizontal_threshold)
         ELSE IF Abs(word.x0 - current_x) <= HalfPoints(horizontal_threshold)
         THEN cells_loop(cells, Append(current_cell, word), current_x, Tail(ws),
                         horizontal_threshold)
         ELSE cells_loop(Append(cells, current_cell), <<word>>, word.x0, Tail(ws),
                         horizontal_threshold)

group_line_words_into_cells(line_words, horizontal_threshold) ==
    cells_loop(<<>>, <<>>, 0,
               SortedBy(line_words, [i \in 1..Len(line_words) |-> line_words[i].x0]),
               horizontal_threshold)

\* sep.join(texts)
RECURSIVE Join(_, _)
Join(texts, sep) ==
    IF texts = <<>> THEN <<>>
    ELSE IF Len(texts) = 1 THEN texts[1]
    ELSE texts[1] \o sep \o Join(Tail(texts), sep)

SetMin(S) == CHOOSE m \in S : \A x \in S : m <= x

SetMax(S) == CHOOSE m \in S : \A x \in S : m >= x

\* (text, x0, x1, top, bottom), the numbers rounded to whole points.  The
\* Python tuple's index k is index k + 1 here.
cell_to_tuple(cell_words) ==
    LET cell_sorted == SortedBy(cell_words,
                                [i \in 1..Len(cell_words) |-> cell_words[i].x0])
        n == Len(cell_sorted)
    IN  << Join([i \in 1..n |-> cell_sorted[i].text], <<" ">>),
           RoundHalfEven(SetMin({cell_sorted[i].x0 : i \in 1..n})),
           RoundHalfEven(SetMax({cell_sorted[i].x1 : i \in 1..n})),
           RoundHalfEven(SetMin({cell_sorted[i].top : i \in 1..n})),
           RoundHalfEven(SetMax({cell_sorted[i].bottom : i \in 1..n})) >>

\* The table extract_rows_from_page returns for the words page.extract_words()
\* gave: a list of rows, each a list of cell tuples.
extract_rows_from_page(words, vertical_threshold, horizontal_threshold) ==
    LET lines == group_words_into_lines(words, vertical_threshold) IN
    [l \in 1..Len(lines) |->
        LET cells == group_line_words_into_cells(lines[l], horizontal_threshold) IN
        [c \in 1..Len(cells) |-> cell_to_tuple(cells[c])]]

\* raw_cells, the second value extract_rows_from_page returns: per line its
\* cells, each the list of its words.
raw_cells_of(words, vertical_threshold, horizontal_threshold) ==
    LET lines == group_words_into_lines(words, vertical_threshold) IN
    [l \in 1..Len(lines) |->
        group_line_words_into_cells(lines[l], horizontal_threshold)]

(***************************************************************************)
(* Numbers that may be NaN (pandas float64): the row index of a data frame *)
(* after the page offset is added, and the page offset itself.             *)
(***************************************************************************)
Num(n) == [nan |-> FALSE, val |-> n]

NaN == [nan |-> TRUE, val |-> 0]

\* a + b in floating point: NaN when either is.
FAdd(a, b) == IF a.nan \/ b.nan THEN NaN ELSE Num(a.val + b.val)

\* Series.max(): the largest value that is not NaN, NaN when there is none
\* (an empty column, or a column of NaN only).
SeriesMax(column) ==
    LET nums == {column[i].val : i \in {k \in 1..Len(column) : ~column[k].nan}} IN
    IF nums = {} THEN NaN ELSE Num(SetMax(nums))

\* Whether two dictionary keys are the same key: a NaN is equal to nothing,
\* and every row of a data frame carries a NaN object of its own.
SameKey(a, b) == ~a.nan /\ ~b.nan /\ a.val = b.val

(***************************************************************************)
(* TextualParser: from the rows of a page to its binned data frame.        *)
(***************************************************************************)
\* The merging loop with gap < spacing in place of gap <= spacing.
RECURSIVE merge_loop_below(_, _, _)
merge_loop_below(merged_words, rest, spacing) ==
    IF rest = <<>> THEN merged_words
    ELSE LET last_word == Last(merged_words)
             current_word == Head(rest)
             gap == Abs(last_word[3] - current_word[2])
         IN  IF gap < spacing
             THEN merge_loop_below(
                     Append(ButLast(merged_words),
                            << last_word[1] \o <<" ">> \o current_word[1],
                               last_word[2], current_word[3],
                               last_word[4], last_word[5] >>),
                     Tail(rest), spacing)
             ELSE merge_loop_below(Append(merged_words, current_word), Tail(rest), spacing)

\* The loop of combine_close_words over one row.
RECURSIVE merge_loop(_, _, _)
merge_loop(merged_words, rest, spacing) ==
    IF rest = <<>> THEN merged_words
    ELSE LET last_word == Last(merged_words)
             current_word == Head(rest)
             gap == Abs(last_word[3] - current_word[2])
         IN  IF gap <= spacing
             THEN merge_loop(
                     Append(ButLast(merged_words),
                            << last_word[1] \o <<" ">> \o current_word[1],
                               last_word[2], current_word[3],
                               last_word[4], last_word[5] >>),
                     Tail(rest), spacing)
             ELSE merge_loop(Append(merged_words, current_word), Tail(rest), spacing)

combine_close_words(rows, spacing) ==
    [r \in 1..Len(rows) |->
        IF rows[r] = <<>> THEN <<>>
        ELSE merge_loop(<<rows[r][1]>>, Tail(rows[r]), spacing)]

RECURSIVE Concat(_)
Concat(seqs) == IF seqs = <<>> THEN <<>> ELSE Head(seqs) \o Concat(Tail(seqs))

\* One data frame row [x, y, text] per (combined) word, row after row.
create_coords_dataframe(word_rows) ==
    LET combined_word_rows == combine_close_words(word_rows, word_spacing) IN
    Concat([r \in 1..Len(combined_word_rows) |->
              [w \in 1..Len(combined_word_rows[r]) |->
                  [x |-> combined_word_rows[r][w][2],
                   y |-> combined_word_rows[r][w][4],
                   text |-> combined_word_rows[r][w][1]]]])

\* sorted(column.unique())
RECURSIVE SortedSet(_)
SortedSet(S) ==
    IF S = {} THEN <<>> ELSE LET m == SetMin(S) IN <<m>> \o SortedSet(S \ {m})

\* The place (from 0) of v in a list that holds it once.
IndexIn(v, list) == (CHOOSE i \in 1..Len(list) : list[i] = v) - 1

add_bin_index(df) ==
    LET sorted_y_bins == SortedSet({df[i].y_bin : i \in 1..Len(df)})
        sorted_x_bins == SortedSet({df[i].x_bin : i \in 1..Len(df)})
    IN  [i \in 1..Len(df) |->
            [x |-> df[i].x, y |-> df[i].y, text |-> df[i].text,
             y_bin |-> df[i].y_bin, x_bin |-> df[i].x_bin,
             y_index |-> IndexIn(df[i].y_bin, sorted_y_bins),
             x_index |-> IndexIn(df[i].x_bin, sorted_x_bins)]]

get_binned_coords_dataframe(word_rows) ==
    LET df == create_coords_dataframe(word_rows)
        y_bins == group_coords([i \in 1..Len(df) |-> df[i].y])
        x_bins == group_coords([i \in 1..Len(df) |-> df[i].x])
    IN  add_bin_index(
            [i \in 1..Len(df) |->
                [x |-> df[i].x, y |-> df[i].y, text |-> df[i].text,
                 y_bin |-> map_to_bin(df[i].y, y_bins),
                 x_bin |-> map_to_bin(df[i].x, x_bins)]])

\* df['y_index'] += y_offset
add_y_offset(df, y_offset) ==
    [i \in 1..Len(df) |-> [df[i] EXCEPT !.y_index = FAdd(Num(df[i].y_index), y_offset)]]

\* df['y_index'].max() + 1, on the frame the offset was added to
next_y_offset(df) ==
    FAdd(SeriesMax([i \in 1..Len(df) |-> df[i].y_index]), Num(1))

(***************************************************************************)
(* TextualParser.format_text_by_grid_position.                             *)
(***************************************************************************)
\* lines_by_y: the keys in the order of their first row, and under each key
\* its (x_index, text) pairs in row order.
RECURSIVE lines_by_y_loop(_, _)
lines_by_y_loop(lines, rows) ==
    IF rows = <<>> THEN lines
    ELSE LET row == Head(rows)
             at == {k \in 1..Len(lines) : SameKey(lines[k].key, row.y_index)}
             item == [x_index |-> row.x_index, text |-> row.text]
         IN  IF at = {}
             THEN lines_by_y_loop(Append(lines, [key |-> row.y_index, items |-> <<item>>]),
                                  Tail(rows))
             ELSE LET k == CHOOSE k \in at : TRUE IN
                  lines_by_y_loop(
                      [lines EXCEPT ![k].items = Append(lines[k].items, item)],
                      Tail(rows))

\* sorted(lines_by_y.keys()), as the lines themselves.  Keys that are NaN
\* compare false with everything, so a list of NaN keys keeps its order; the
\* keys of one frame are all numbers or all NaN.
sorted_lines(lines) ==
    IF \E k \in 1..Len(lines) : lines[k].key.nan THEN lines
    ELSE SortedBy(lines, [k \in 1..Len(lines) |-> lines[k].key.val])

\* x_index_to_col
x_index_to_col(df, x_index) ==
    IndexIn(x_index, SortedSet({df[i].x_index : i \in 1..Len(df)}))
        * format__column_spacing

\* The cursor or the target, without the gap.
place_pos_without_gap(cursor_pos, target_pos) == Max2(cursor_pos, target_pos)

\* The target offset, whatever the cursor.
place_pos_at_target(cursor_pos, target_pos) == target_pos

\* actual_pos = max(cursor_pos + min_gap, target_pos)
place_pos(cursor_pos, target_pos) == Max2(cursor_pos + format__min_gap, target_pos)

\* The characters of text written from actual_pos (from 0), those that fall
\* beyond the line dropped.
put_text(line, actual_pos, text) ==
    [i \in 1..Len(line) |->
        IF i - 1 >= actual_pos /\ i - 1 < actual_pos + Len(text)
        THEN text[i - actual_pos] ELSE line[i]]

\* The inner loop over one line's words: the line written so far, the cursor,
\* and where each word was placed: its start, the cursor after it (end), its
\* target offset, its column index and its text.
RECURSIVE place_loop(_, _, _, _, _)
place_loop(line, cursor_pos, placed, items, df) ==
    IF items = <<>> THEN [line |-> line, placed |-> placed]
    ELSE LET it == Head(items)
             target_pos == x_index_to_col(df, it.x_index)
             actual_pos == place_pos(cursor_pos, target_pos)
         IN  place_loop(put_text(line, actual_pos, it.text),
                        actual_pos + Len(it.text),
                        Append(placed, [start |-> actual_pos,
                                        end |-> actual_pos + Len(it.text),
                                        target |-> target_pos,
                                        x_index |-> it.x_index,
                                        text |-> it.text]),
                        Tail(items), df)

\* One entry per rendered line, in output order: the line of line_length
\* characters as written and the placement of its words.
grid_lines(df) ==
    LET lines == sorted_lines(lines_by_y_loop(<<>>, df)) IN
    [l \in 1..Len(lines) |->
        place_loop([i \in 1..format__line_length |-> " "], 0, <<>>,
                   SortedBy(lines[l].items,
                            [k \in 1..Len(lines[l].items) |-> lines[l].items[k].x_index]),
                   df)]

\* What str.isspace() holds of the characters of the model.
Whitespace == {" ", "\t", "\n", "\r", "VT", "FF", "US", "NBSP"}

\* str.rstrip(): everything up to the last character that is no whitespace.
rstrip(text) ==
    SubSeq(text, 1,
           CHOOSE n \in 0..Len(text) :
               /\ n = 0 \/ text[n] \notin Whitespace
               /\ \A j \in (n + 1)..Len(text) : text[j] \in Whitespace)

\* "\n".join(formatted_lines)
grid_text(g) == Join([l \in 1..Len(g) |-> rstrip(g[l].line)], <<"\n">>)

format_text_by_grid_position(df) == grid_text(grid_lines(df))

(***************************************************************************)
(* Characters and strings.                                                 *)
(***************************************************************************)
UpperLetters ==
    << "A", "B", "C", "D", "E", "F", "G", "H", "I", "J", "K", "L", "M",
       "N", "O", "P", "Q", "R", "S", "T", "U", "V", "W", "X", "Y", "Z" >>

LowerLetters ==
    << "a", "b", "c", "d", "e", "f", "g", "h", "i", "j", "k", "l", "m",
       "n", "o", "p", "q", "r", "s", "t", "u", "v", "w", "x", "y", "z" >>

LowerChar(c) ==
    IF \E i \in 1..Len(UpperLetters) : UpperLetters[i] = c
    THEN LowerLetters[CHOOSE i \in 1..Len(UpperLetters) : UpperLetters[i] = c]
    ELSE c

\* str.lower()
Lower(text) == [i \in 1..Len(text) |-> LowerChar(text[i])]

\* str.lstrip()
RECURSIVE lstrip(_)
lstrip(text) ==
    IF text # <<>> /\ Head(text) \in Whitespace THEN lstrip(Tail(text)) ELSE text

\* str.strip()
strip(text) == lstrip(rstrip(text))

\* str.replace(old, new) for single characters
ReplaceChar(text, old, new) == [i \in 1..Len(text) |-> IF text[i] = old THEN new ELSE text[i]]

\* '\n------------\n'
page_delimiter ==
    <<"\n", "-", "-", "-", "-", "-", "-", "-", "-", "-", "-", "-", "-", "\n">>

(***************************************************************************)
(* PdfParser._validate_file_type and _has_binary_encoding.                 *)
(***************************************************************************)
\* The largest index of c in path, 0 when it is not there (str.rfind + 1).
RFind(path, c) ==
    LET at == {i \in 1..Len(path) : path[i] = c} IN IF at = {} THEN 0 ELSE SetMax(at)

\* The extension os.path.splitext (posixpath) gives: from the last dot of the
\* last path component, unless only dots come before it in that component.
splitext_ext(path) ==
    LET sepIndex == RFind(path, "/")
        dotIndex == RFind(path, ".")
    IN  IF dotIndex > sepIndex
           /\ \E k \in (sepIndex + 1)..(dotIndex - 1) : path[k] # "."
        THEN SubSeq(path, dotIndex, Len(path))
        ELSE <<>>

\* ".pdf" anywhere in the lower-cased path, instead of as its extension.
valid_file_type_anywhere(path) ==
    \E i \in 1..(Len(path) - 3) : SubSeq(Lower(path), i, i + 3) = <<".", "p", "d", "f">>

\* Whether _validate_file_type returns (it raises ValueError otherwise).
valid_file_type(path) == Lower(splitext_ext(path)) = <<".", "p", "d", "f">>

HexDigits ==
    {"0", "1", "2", "3", "4", "5", "6", "7", "8", "9",
     "A", "B", "C", "D", "E", "F", "a", "b", "c", "d", "e", "f"}

\* hex_pattern.search(text): \\x[0-9A-Fa-f]{2}
hex_pattern_search(text) ==
    \E i \in 1..(Len(text) - 3) :
        /\ text[i] = "\\"
        /\ text[i + 1] = "x"
        /\ text[i + 2] \in HexDigits
        /\ text[i + 3] \in HexDigits

\* The characters of [\x00-\x08\x0B\x0C\x0E-\x1F\x7F-\x9F] among those of the
\* model, by name: NUL BEL BS | VT FF | SO ESC US | DEL PAD APC.
ctrl_pattern_class ==
    {"NUL", "BEL", "BS"} \cup {"VT", "FF"} \cup {"SO", "ESC", "US"}
        \cup {"DEL", "PAD", "APC"}

allowed == {"\n", "\t", "\r"}

ctrl_pattern_search(cleaned) == \E i \in 1..Len(cleaned) : cleaned[i] \in ctrl_pattern_class

\* Only the test for \xNN escapes.
has_binary_encoding_hex_only(text) == hex_pattern_search(text)

has_binary_encoding(text) ==
    LET cleaned == SelectSeq(text, LAMBDA c : c \notin allowed) IN
    IF hex_pattern_search(text) THEN TRUE
    ELSE IF ctrl_pattern_search(cleaned) THEN TRUE
    ELSE FALSE

(***************************************************************************)
(* VisualParser.reconstruct_text_from_df and the text of one OCR page.  An *)
(* OCR row is [text, null, left, top, conf]; null says the text is missing *)
(* (NaN).                                                                  *)
(***************************************************************************)
format__line_tol == 10

min_ocr_rows == 10

\* data[data.conf != -1].dropna(subset=["text"])
usable_rows(data) == SelectSeq(data, LAMBDA r : r.conf # -1 /\ ~r.null)

\* The first line key (in insertion order) within line_tol of y; 0 when none.
first_line_match(lines, y) ==
    LET at == {k \in 1..Len(lines) : Abs(lines[k].key - y) <= format__line_tol} IN
    IF at = {} THEN 0 ELSE SetMin(at)

RECURSIVE ocr_lines_loop(_, _)
ocr_lines_loop(lines, rows) ==
    IF rows = <<>> THEN lines
    ELSE LET row == Head(rows)
             k == first_line_match(lines, row.top)
             item == [left |-> row.left, text |-> row.text]
         IN  IF k = 0
             THEN ocr_lines_loop(Append(lines, [key |-> row.top, items |-> <<item>>]),
                                 Tail(rows))
             ELSE ocr_lines_loop([lines EXCEPT ![k].items = Append(lines[k].items, item)],
                                 Tail(rows))

reconstruct_text_from_df(data) ==
    LET stripped == [i \in 1..Len(data) |-> [data[i] EXCEPT !.text = strip(data[i].text)]]
        kept == SelectSeq(stripped, LAMBDA r : r.text # <<>>)
        lines == ocr_lines_loop(<<>>, kept)
        ordered == SortedBy(lines, [k \in 1..Len(lines) |-> lines[k].key])
    IN  Join([l \in 1..Len(ordered) |->
                LET words == SortedBy(ordered[l].items,
                                      [k \in 1..Len(ordered[l].items) |->
                                          ordered[l].items[k].left])
                IN  Join([k \in 1..Len(words) |-> words[k].text], <<" ">>)],
             <<"\n">>)

\* img_text with the rows counted after the blank texts are dropped.
ocr_page_text_counting_nonblank(page) ==
    LET data == usable_rows(page.data) IN
    IF Len(SelectSeq(data, LAMBDA r : strip(r.text) # <<>>)) < min_ocr_rows
    THEN Lower(strip(page.plain))
    ELSE reconstruct_text_from_df(data)

\* img_text of one image: page.data is what image_to_data returned, page.plain
\* what image_to_string returns.
ocr_page_text(page) ==
    LET data == usable_rows(page.data) IN
    IF Len(data) < min_ocr_rows
    THEN Lower(strip(page.plain))
    ELSE reconstruct_text_from_df(data)

(***************************************************************************)
(* The binner as a machine: a coordinate list, group_coords on it, then    *)
(* map_to_bin on one of its bins or one of its coordinates.                *)
(***************************************************************************)
Coords == (0 - NegCoords)..MaxCoord

RECURSIVE SeqsUpTo(_, _)
SeqsUpTo(S, n) ==
    IF n = 0 THEN {<<>>}
    ELSE LET shorter == SeqsUpTo(S, n - 1) IN
         shorter \cup {Append(s, x) : s \in {t \in shorter : Len(t) = n - 1}, x \in S}

Range(s) == {s[i] : i \in 1..Len(s)}

RowIdle ==
    /\ rw_pc = "idle"
    /\ rw_words = <<>>
    /\ rw_cells = <<>>
    /\ rw_table = <<>>

TeIdle ==
    /\ te_pc = "idle"
    /\ te_n_pages = 0
    /\ te_i = 0
    /\ te_previous_column_names = <<>>
    /\ te_all_tables = <<>>
    /\ te_log = <<>>

BinIdle ==
    /\ bin_pc = "idle"
    /\ bin_values = <<>>
    /\ bin_groups = <<>>
    /\ bin_bins = <<>>
    /\ bin_val = 0
    /\ bin_result = 0
    /\ bin_frame = <<>>

PgIdle ==
    /\ pg_pc = "idle"
    /\ pg_words = <<>>
    /\ pg_rows = <<>>
    /\ pg_df = <<>>
    /\ pg_offset = Num(0)
    /\ pg_grid = <<>>
    /\ pg_text = <<>>

TpIdle ==
    /\ tp_page = 0
    /\ tp_y_offset = Num(0)
    /\ tp_local_pages_text = <<>>
    /\ tp_pages_text = <<>>
    /\ tp_raw_text = <<>>
    /\ tp_log = <<>>

VpIdle ==
    /\ vp_images = 0
    /\ vp_page = 0
    /\ vp_pages_added = 0
    /\ vp_text = <<>>
    /\ vp_page_texts = <<>>
    /\ vp_pages_text = <<>>
    /\ vp_raw_text = <<>>
    /\ vp_log = <<>>

OutIdle ==
    /\ parser = "none"
    /\ parse_method = "none"
    /\ pages_text = <<>>
    /\ raw_text = <<>>
    /\ preview = <<>>

MainIdle ==
    /\ pc = "idle"
    /\ file_path = <<>>
    /\ error = "none"
    /\ file_loaded = FALSE
    /\ n_pages = 0
    /\ n_tokens = 0
    /\ native_attempted = FALSE
    /\ native_raised = FALSE
    /\ binary = "none"
    /\ TpIdle
    /\ VpIdle
    /\ OutIdle

\* Longer lists in which neighbours are within the threshold of each other
\* while the ends are far apart, and one with a second cluster.
ChainedCoords ==
    { <<0, 5, 10, 10>>, <<10, 5, 10, 0>>, <<0, 0, 5, 10>>, <<8, 3, 8, 20, 0 - 2>> }

BinInit ==
    /\ bin_pc = "input"
    /\ bin_values \in SeqsUpTo(Coords, MaxCoords) \cup ChainedCoords
    /\ bin_groups = <<>>
    /\ bin_bins = <<>>
    /\ bin_val = 0
    /\ bin_result = 0
    /\ bin_frame = <<>>
    /\ PgIdle
    /\ MainIdle
    /\ RowIdle
    /\ TeIdle

GroupCoords ==
    /\ bin_pc = "input"
    /\ bin_groups' = group_members(bin_values)
    /\ bin_bins' = group_coords(bin_values)
    /\ bin_pc' = "grouped"
    /\ UNCHANGED <<bin_values, bin_val, bin_result, bin_frame>>
    /\ UNCHANGED <<pgVars, mainVars, rowVars, teVars>>

MapToBin ==
    /\ bin_pc = "grouped"
    /\ \E v \in Range(bin_bins) \cup Range(bin_values) :
          /\ bin_val' = v
          /\ bin_result' = map_to_bin(v, bin_bins)
    /\ bin_pc' = "mapped"
    /\ UNCHANGED <<bin_values, bin_groups, bin_bins, bin_frame>>
    /\ UNCHANGED <<pgVars, mainVars, rowVars, teVars>>

\* The table of a page with one word per row, the k-th with its left edge at
\* the k-th coordinate and the rows 20 apart: (text, x0, x1, top, bottom).
words_at(values) ==
    [k \in 1..Len(values) |-> << <<<<"w">>, values[k], values[k] + 8, 20 * k, 20 * k + 8>> >>]

\* get_binned_coords_dataframe for words whose x are the coordinates: the
\* x bins are those of GroupCoords.
BinFrame ==
    /\ bin_pc = "grouped"
    /\ bin_frame' = get_binned_coords_dataframe(words_at(bin_values))
    /\ bin_pc' = "indexed"
    /\ UNCHANGED <<bin_values, bin_groups, bin_bins, bin_val, bin_result>>
    /\ UNCHANGED <<pgVars, mainVars, rowVars, teVars>>

BinNext == GroupCoords \/ MapToBin \/ BinFrame

SpecBin == BinInit /\ [][BinNext]_vars

(***************************************************************************)
(* One page on its own: the words of the page, extract_rows_from_page,     *)
(* get_binned_coords_dataframe, then the offset and the rendering as       *)
(* parse_pdf_and_format does them.                                         *)
(***************************************************************************)
ShortText == <<"N", "a">>

LongText == [i \in 1..LongLen |-> "w"]

\* Raw coordinates, in half points: left edges 0, 11, 12 and 13 (a word 8 wide
\* at 0 ends 3 before 11, 4 before 12 and 5 before 13); tops 1.5, 7 and 20 (1.5 and 7 are more
\* than 5 apart and round to 2 and 7, which are not).
PageX0s == {0, 22, 24, 26}

PageTops == {3, 14, 40}

PageWords ==
    {[text |-> t, x0 |-> x, x1 |-> x + 16, top |-> y, bottom |-> y + 16] :
        t \in {ShortText, LongText}, x \in PageX0s, y \in PageTops}

PageOffsets == {Num(0), Num(MaxWords), NaN}

PgInit ==
    /\ pg_pc = "words"
    /\ pg_words \in SeqsUpTo(PageWords, MaxWords)
    /\ pg_rows = <<>>
    /\ pg_df = <<>>
    /\ pg_offset = Num(0)
    /\ pg_grid = <<>>
    /\ pg_text = <<>>
    /\ BinIdle
    /\ MainIdle
    /\ RowIdle
    /\ TeIdle

ExtractRows ==
    /\ pg_pc = "words"
    /\ pg_rows' = extract_rows_from_page(pg_words, vertical_threshold_arg,
                                         horizontal_threshold_arg)
    /\ pg_pc' = "rows"
    /\ UNCHANGED <<pg_words, pg_df, pg_offset, pg_grid, pg_text>>
    /\ UNCHANGED <<binVars, mainVars, rowVars, teVars>>

BinPage ==
    /\ pg_pc = "rows"
    /\ pg_df' = get_binned_coords_dataframe(pg_rows)
    /\ pg_pc' = "binned"
    /\ UNCHANGED <<pg_words, pg_rows, pg_offset, pg_grid, pg_text>>
    /\ UNCHANGED <<binVars, mainVars, rowVars, teVars>>

FormatPage ==
    /\ pg_pc = "binned"
    /\ \E y_offset \in PageOffsets :
          LET df == add_y_offset(pg_df, y_offset) IN
          /\ pg_offset' = y_offset
          /\ pg_grid' = grid_lines(df)
          /\ pg_text' = grid_text(pg_grid')
    /\ pg_pc' = "formatted"
    /\ UNCHANGED <<pg_words, pg_rows, pg_df>>
    /\ UNCHANGED <<binVars, mainVars, rowVars, teVars>>

PgNext == ExtractRows \/ BinPage \/ FormatPage

SpecPage == PgInit /\ [][PgNext]_vars

(***************************************************************************)
(* extract_rows_from_page on its own: the words of a page in every order.  *)
(* Coordinates are in half points; the words carry different texts, which  *)
(* tell them apart.                                                        *)
(***************************************************************************)
RowLetters == <<"a", "b", "c", "d", "e">>

\* x0 values: equal, within the horizontal threshold of the first, beyond it.
RowX0s == {0, HalfPoints(horizontal_threshold_arg), HalfPoints(horizontal_threshold_arg) + 1}

\* top values: equal, within the vertical threshold of the first, beyond it.
RowTops == {0, HalfPoints(vertical_threshold_arg), HalfPoints(vertical_threshold_arg) + 1}

RowWordLists ==
    UNION { { [i \in 1..n |-> [text |-> <<RowLetters[i]>>,
                                x0 |-> xs[i], x1 |-> xs[i] + 16,
                                top |-> ts[i], bottom |-> ts[i] + 16]] :
                xs \in [1..n -> RowX0s], ts \in [1..n -> RowTops] } :
            n \in 0..MaxRowWords }

RowInit ==
    /\ rw_pc = "words"
    /\ rw_words \in RowWordLists
    /\ rw_cells = <<>>
    /\ rw_table = <<>>
    /\ TeIdle
    /\ BinIdle
    /\ PgIdle
    /\ MainIdle

\* table, raw_cells = extract_rows_from_page(page, 5, 10)
ExtractRowsAndCells ==
    /\ rw_pc = "words"
    /\ rw_cells' = raw_cells_of(rw_words, vertical_threshold_arg, horizontal_threshold_arg)
    /\ rw_table' = extract_rows_from_page(rw_words, vertical_threshold_arg,
                                          horizontal_threshold_arg)
    /\ rw_pc' = "rows"
    /\ UNCHANGED rw_words
    /\ UNCHANGED <<binVars, pgVars, mainVars, teVars>>

RowNext == ExtractRowsAndCells

SpecRows == RowInit /\ [][RowNext]_vars

(***************************************************************************)
(* TableExtractor.extract_from_pages: the loop over the page texts.  A     *)
(* table is its number of rows (len(table)) and its column names.          *)
(***************************************************************************)
Table(columns, rows) == [columns |-> columns, rows |-> rows]

\* What extract_from_page may return for a page: nothing (also when the call
\* or the parsing failed), one table with enough rows, one with too few, two
\* with enough rows, one with enough rows followed by one with too few.
PageTables ==
    { << >>,
      << Table(<<"a">>, row_threshold) >>,
      << Table(<<"b", "c">>, row_threshold - 1) >>,
      << Table(<<"a">>, row_threshold + 1), Table(<<"b", "c">>, row_threshold) >>,
      << Table(<<"b", "c">>, row_threshold), Table(<<"a">>, row_threshold - 1) >> }

TeInit ==
    /\ te_pc = "pages"
    /\ te_n_pages \in 0..MaxTablePages
    /\ te_i = 0
    /\ te_previous_column_names = <<>>
    /\ te_all_tables = <<>>
    /\ te_log = <<>>
    /\ RowIdle
    /\ BinIdle
    /\ PgIdle
    /\ MainIdle

\* filtered_tables
filtered_tables_of(page_tables) == SelectSeq(page_tables, LAMBDA t : t.rows >= row_threshold)

\* One pass of the loop of extract_from_pages.
ExtractFromPage ==
    /\ te_pc = "pages"
    /\ te_i < te_n_pages
    /\ \E page_tables \in PageTables :
          LET filtered_tables == filtered_tables_of(page_tables) IN
          /\ te_log' = Append(te_log, [previous_columns |-> te_previous_column_names,
                                       page_tables |-> page_tables])
          /\ te_all_tables' = te_all_tables \o filtered_tables
          /\ te_previous_column_names' =
                IF filtered_tables # <<>>
                THEN Last(filtered_tables).columns
                ELSE te_previous_column_names
    /\ te_i' = te_i + 1
    /\ UNCHANGED <<te_pc, te_n_pages>>
    /\ UNCHANGED <<binVars, pgVars, mainVars, rowVars>>

\* return all_tables
ReturnTables ==
    /\ te_pc = "pages"
    /\ te_i = te_n_pages
    /\ te_pc' = "returned"
    /\ UNCHANGED <<te_n_pages, te_i, te_previous_column_names, te_all_tables, te_log>>
    /\ UNCHANGED <<binVars, pgVars, mainVars, rowVars>>

TeNext == ExtractFromPage \/ ReturnTables

SpecTables == TeInit /\ [][TeNext]_vars

(***************************************************************************)
(* PdfParser(file_path): validation, loading, the token count, the choice  *)
(* of the parser with both parsers' page loops, and the attributes set at  *)
(* the end.                                                                *)
(***************************************************************************)
FilePaths ==
    { <<"a", ".", "p", "d", "f">>,
      <<"d", "/", "a", ".", "P", "D", "F">>,
      <<"a", ".", "t", "x", "t">>,
      <<"a", ".", "p", "d", "f", "x">>,
      <<".", "p", "d", "f">>,
      <<"a", ".", "p", "d", "f", "/", "b">>,
      <<"a">> }

NativeWord(text, x0, top) ==
    [text |-> text, x0 |-> x0, x1 |-> x0 + 16, top |-> top, bottom |-> top + 16]

\* What page.extract_words() may give for a page: two rows of clean text (the
\* first of two cells, one with a no-break space), no words, a word holding a \xNN escape, a word that
\* only looks like one, a word holding a control character.
NativePages ==
    { << NativeWord(<<"N", "NBSP", "a">>, 0, 3), NativeWord(<<"7">>, 26, 3),
         NativeWord(<<"b">>, 0, 40) >>,
      << >>,
      << NativeWord(<<"\\", "x", "A", "b">>, 0, 3) >>,
      << NativeWord(<<"\\", "x", "A", "g">>, 0, 3) >>,
      << NativeWord(<<"a", "DEL">>, 0, 3), NativeWord(<<"b">>, 0, 40) >> }

\* What OCR may give for an image: n rows on two text lines; `bad` spoils the
\* first row: "conf" (confidence -1), "null" (no text), "blank" (spaces only).
OcrImage(n, bad) ==
    [data |-> [i \in 1..n |->
                 [text |-> IF i = 1 /\ bad = "blank" THEN <<" ", " ">>
                           ELSE IF i % 2 = 0 THEN <<"W">> ELSE <<"x">>,
                  null |-> (i = 1 /\ bad = "null"),
                  left |-> (n - i) * 10,
                  top |-> (i % 2) * 30 + i,
                  conf |-> IF i = 1 /\ bad = "conf" THEN -1 ELSE 90]],
     plain |-> <<" ", "A", "b", " ", "C", "\n">>]

OcrImages ==
    { OcrImage(min_ocr_rows - 1, "none"),
      OcrImage(min_ocr_rows, "none"),
      OcrImage(min_ocr_rows, "conf"),
      OcrImage(min_ocr_rows, "blank"),
      OcrImage(min_ocr_rows + 1, "null") }

Init ==
    /\ pc = "init"
    /\ file_path \in FilePaths
    /\ error = "none"
    /\ file_loaded = FALSE
    /\ n_pages = 0
    /\ n_tokens = 0
    /\ native_attempted = FALSE
    /\ native_raised = FALSE
    /\ binary = "none"
    /\ TpIdle
    /\ VpIdle
    /\ OutIdle
    /\ BinIdle
    /\ PgIdle
    /\ RowIdle
    /\ TeIdle

\* self._validate_file_type()
Validate ==
    /\ pc = "init"
    /\ IF valid_file_type(file_path)
       THEN pc' = "load" /\ error' = error
       ELSE pc' = "failed" /\ error' = "ValueError"
    /\ UNCHANGED <<file_path, file_loaded, n_pages, n_tokens, native_attempted,
                   native_raised, binary>>
    /\ UNCHANGED <<tpVars, vpVars, outVars, binVars, pgVars, rowVars, teVars>>

\* self.file = self._load_file()
LoadFile ==
    /\ pc = "load"
    /\ \E n \in 0..MaxPages : n_pages' = n
    /\ file_loaded' = TRUE
    /\ pc' = "count"
    /\ UNCHANGED <<file_path, error, n_tokens, native_attempted, native_raised, binary>>
    /\ UNCHANGED <<tpVars, vpVars, outVars, binVars, pgVars, rowVars, teVars>>

\* open() raises: the exception leaves the constructor.
LoadFileRaises ==
    /\ pc = "load"
    /\ error' = "OSError"
    /\ pc' = "failed"
    /\ UNCHANGED <<file_path, file_loaded, n_pages, n_tokens, native_attempted,
                   native_raised, binary>>
    /\ UNCHANGED <<tpVars, vpVars, outVars, binVars, pgVars, rowVars, teVars>>

\* The token counts tried: none, the counts around the threshold, and the
\* counts above it up to MaxTokens.
TokenCounts ==
    {0, token_threshold - 1, token_threshold} \cup ((token_threshold + 1)..MaxTokens)

\* self.n_tokens = count_tokens_in_pdf(file=self.file)
CountTokens ==
    /\ pc = "count"
    /\ \E t \in TokenCounts : n_tokens' = t
    /\ pc' = "select"
    /\ UNCHANGED <<file_path, error, file_loaded, n_pages, native_attempted,
                   native_raised, binary>>
    /\ UNCHANGED <<tpVars, vpVars, outVars, binVars, pgVars, rowVars, teVars>>

\* PdfReader or the tokenizer raises: the exception leaves the constructor.
CountTokensRaises ==
    /\ pc = "count"
    /\ error' = "Exception"
    /\ pc' = "failed"
    /\ UNCHANGED <<file_path, file_loaded, n_pages, n_tokens, native_attempted,
                   native_raised, binary>>
    /\ UNCHANGED <<tpVars, vpVars, outVars, binVars, pgVars, rowVars, teVars>>

\* The test with >= in place of >.
attempts_native_from_threshold(tokens) == tokens >= token_threshold

\* if self.n_tokens > self.token_threshold
attempts_native(tokens) == tokens > token_threshold

\* _select_parser is entered: TextualParser(file) is called, or the branch is
\* skipped and VisualParser(file) is.
SelectParser ==
    /\ pc = "select"
    /\ IF attempts_native(n_tokens)
       THEN pc' = "native" /\ native_attempted' = TRUE
       ELSE pc' = "ocr_images" /\ native_attempted' = FALSE
    /\ UNCHANGED <<file_path, error, file_loaded, n_pages, n_tokens, native_raised, binary>>
    /\ UNCHANGED <<tpVars, vpVars, outVars, binVars, pgVars, rowVars, teVars>>

\* The TextualParser is unreachable once _select_parser goes on without it.
TpDropped ==
    /\ tp_page' = 0
    /\ tp_y_offset' = Num(0)
    /\ tp_local_pages_text' = <<>>
    /\ tp_pages_text' = <<>>
    /\ tp_raw_text' = <<>>
    /\ tp_log' = <<>>

\* pdfplumber.open(self.file) raises (outside the per-page try): the exception
\* leaves TextualParser(file) and is caught in _select_parser.
NativeRaises ==
    /\ pc = "native"
    /\ tp_page = 0
    /\ native_raised' = TRUE
    /\ pc' = "ocr_images"
    /\ TpDropped
    /\ UNCHANGED <<file_path, error, file_loaded, n_pages, n_tokens, native_attempted, binary>>
    /\ UNCHANGED <<vpVars, outVars, binVars, pgVars, rowVars, teVars>>

\* pdf.pages[:self.max_pages_ingestion]
native_page_count == Min2(n_pages, max_pages_ingestion)

\* One pass of the try block of parse_pdf_and_format on a page whose words
\* are `words`.
NativePage ==
    /\ pc = "native"
    /\ tp_page < native_page_count
    /\ \E words \in NativePages :
          LET word_rows == extract_rows_from_page(words, vertical_threshold_arg,
                                                  horizontal_threshold_arg)
              df == add_y_offset(get_binned_coords_dataframe(word_rows), tp_y_offset)
          IN  /\ tp_y_offset' = next_y_offset(df)
              /\ tp_local_pages_text' =
                    Append(tp_local_pages_text, format_text_by_grid_position(df))
              /\ tp_log' = Append(tp_log,
                                  [failed |-> FALSE, words |-> words,
                                   y_index |-> [i \in 1..Len(df) |-> df[i].y_index],
                                   y_offset |-> tp_y_offset'])
    /\ tp_page' = tp_page + 1
    /\ UNCHANGED <<tp_pages_text, tp_raw_text>>
    /\ UNCHANGED <<ctlVars, vpVars, outVars, binVars, pgVars, rowVars, teVars>>

\* A failing page that also empties the list of page texts.
NativePageFailsAndForgets ==
    /\ pc = "native"
    /\ tp_page < native_page_count
    /\ tp_page' = tp_page + 1
    /\ tp_local_pages_text' = <<>>
    /\ tp_log' = Append(tp_log, [failed |-> TRUE, words |-> <<>>, y_index |-> <<>>,
                                 y_offset |-> tp_y_offset])
    /\ UNCHANGED <<tp_y_offset, tp_pages_text, tp_raw_text>>
    /\ UNCHANGED <<ctlVars, vpVars, outVars, binVars, pgVars, rowVars, teVars>>

\* The page's extraction raises: the except clause logs it, and the loop goes
\* on with the next page.
NativePageFails ==
    /\ pc = "native"
    /\ tp_page < native_page_count
    /\ tp_page' = tp_page + 1
    /\ tp_log' = Append(tp_log, [failed |-> TRUE, words |-> <<>>, y_index |-> <<>>,
                                 y_offset |-> tp_y_offset])
    /\ UNCHANGED <<tp_y_offset, tp_local_pages_text, tp_pages_text, tp_raw_text>>
    /\ UNCHANGED <<ctlVars, vpVars, outVars, binVars, pgVars, rowVars, teVars>>

\* After the loop: self.pages_text, and the joined text that becomes
\* self.raw_text.
NativeJoin ==
    /\ pc = "native"
    /\ tp_page = native_page_count
    /\ tp_pages_text' = tp_local_pages_text
    /\ tp_raw_text' = Join(tp_local_pages_text, page_delimiter)
    /\ pc' = "native_built"
    /\ UNCHANGED <<tp_page, tp_y_offset, tp_local_pages_text, tp_log>>
    /\ UNCHANGED <<file_path, error, file_loaded, n_pages, n_tokens, native_attempted,
                   native_raised, binary>>
    /\ UNCHANGED <<vpVars, outVars, binVars, pgVars, rowVars, teVars>>

\* self._has_binary_encoding(text_parser.raw_text)
CheckBinary ==
    /\ pc = "native_built"
    /\ binary' = IF has_binary_encoding(tp_raw_text) THEN "binary" ELSE "clean"
    /\ pc' = "native_checked"
    /\ UNCHANGED <<file_path, error, file_loaded, n_pages, n_tokens, native_attempted,
                   native_raised>>
    /\ UNCHANGED <<tpVars, vpVars, outVars, binVars, pgVars, rowVars, teVars>>

\* return text_parser
ReturnNative ==
    /\ pc = "native_checked"
    /\ binary = "clean"
    /\ parser' = "TextualParser"
    /\ pc' = "finish"
    /\ UNCHANGED <<file_path, error, file_loaded, n_pages, n_tokens, native_attempted,
                   native_raised, binary>>
    /\ UNCHANGED <<parse_method, pages_text, raw_text, preview>>
    /\ UNCHANGED <<tpVars, vpVars, binVars, pgVars, rowVars, teVars>>

\* The text is binary: on to VisualParser(file=self.file).
FallBack ==
    /\ pc = "native_checked"
    /\ binary = "binary"
    /\ pc' = "ocr_images"
    /\ TpDropped
    /\ UNCHANGED <<file_path, error, file_loaded, n_pages, n_tokens, native_attempted,
                   native_raised, binary>>
    /\ UNCHANGED <<vpVars, outVars, binVars, pgVars, rowVars, teVars>>

\* VisualParser.__init__ up to self.images = self.read_images_from_file():
\* the images of the first max_pages_ingestion + 5 pages, or [] when the
\* conversion raises.
OcrReadImages ==
    /\ pc = "ocr_images"
    /\ \E converted \in BOOLEAN :
          vp_images' = IF converted
                       THEN Min2(n_pages, max_pages_ingestion + extra_image_pages)
                       ELSE 0
    /\ vp_page' = 0
    /\ vp_pages_added' = 0
    /\ vp_text' = <<>>
    /\ vp_page_texts' = <<>>
    /\ vp_pages_text' = <<>>
    /\ vp_raw_text' = <<>>
    /\ vp_log' = <<>>
    /\ pc' = "ocr"
    /\ UNCHANGED <<file_path, error, file_loaded, n_pages, n_tokens, native_attempted,
                   native_raised, binary>>
    /\ UNCHANGED <<tpVars, outVars, binVars, pgVars, rowVars, teVars>>

\* The loop of read_text_from_images goes on: images are left and the break
\* at pages_added == max_pages_ingestion has not been taken.
ocr_loop_goes_on == vp_page < vp_images /\ vp_pages_added < max_pages_ingestion

\* text += img_text + self.page_delimiter
text_with_page(text, img_text) == text \o img_text \o page_delimiter

\* One pass of the try block of read_text_from_images.
OcrPage ==
    /\ pc = "ocr"
    /\ ocr_loop_goes_on
    /\ \E image \in OcrImages :
          LET img_text == ocr_page_text(image) IN
          /\ vp_page_texts' = Append(vp_page_texts, img_text)
          /\ vp_text' = text_with_page(vp_text, img_text)
          /\ vp_log' = Append(vp_log, [failed |-> FALSE, image |-> image])
    /\ vp_pages_added' = vp_pages_added + 1
    /\ vp_page' = vp_page + 1
    /\ UNCHANGED <<vp_images, vp_pages_text, vp_raw_text>>
    /\ UNCHANGED <<ctlVars, tpVars, outVars, binVars, pgVars, rowVars, teVars>>

\* Preprocessing or OCR of the image raises: logged, and `continue`.
OcrPageFails ==
    /\ pc = "ocr"
    /\ ocr_loop_goes_on
    /\ vp_page' = vp_page + 1
    /\ vp_log' = Append(vp_log, [failed |-> TRUE, image |-> <<>>])
    /\ UNCHANGED <<vp_images, vp_pages_added, vp_text, vp_page_texts, vp_pages_text,
                   vp_raw_text>>
    /\ UNCHANGED <<ctlVars, tpVars, outVars, binVars, pgVars, rowVars, teVars>>

\* After the loop: self.pages_text = page_texts, self.raw_text = text, and
\* _select_parser returns the VisualParser.
OcrEnd ==
    /\ pc = "ocr"
    /\ ~ocr_loop_goes_on
    /\ vp_pages_text' = vp_page_texts
    /\ vp_raw_text' = vp_text
    /\ parser' = "VisualParser"
    /\ pc' = "finish"
    /\ UNCHANGED <<vp_images, vp_page, vp_pages_added, vp_text, vp_page_texts, vp_log>>
    /\ UNCHANGED <<file_path, error, file_loaded, n_pages, n_tokens, native_attempted,
                   native_raised, binary>>
    /\ UNCHANGED <<parse_method, pages_text, raw_text, preview>>
    /\ UNCHANGED <<tpVars, binVars, pgVars, rowVars, teVars>>

\* parser.__method__
method_of(p) == IF p = "TextualParser" THEN "TEXT-PDF" ELSE "IMAGE-PDF"

file_name_prefix == <<"*", "F", "i", "l", "e", " ", "n", "a", "m", "e", "*", ":", " ">>

\* The rest of PdfParser.__init__: parse_method, pages_text, raw_text, preview.
Finish ==
    /\ pc = "finish"
    /\ parse_method' = method_of(parser)
    /\ pages_text' = IF parser = "TextualParser" THEN tp_pages_text ELSE vp_pages_text
    /\ LET parser_raw_text == IF parser = "TextualParser" THEN tp_raw_text ELSE vp_raw_text
           cleaned == ReplaceChar(parser_raw_text, "NBSP", " ")
       IN  /\ raw_text' = file_name_prefix \o file_path \o <<"\n">> \o cleaned
           /\ preview' = SubSeq(cleaned, 1, Min2(preview_chars, Len(cleaned)))
    /\ pc' = "done"
    /\ UNCHANGED parser
    /\ UNCHANGED <<file_path, error, file_loaded, n_pages, n_tokens, native_attempted,
                   native_raised, binary>>
    /\ UNCHANGED <<tpVars, vpVars, binVars, pgVars, rowVars, teVars>>

Next ==
    \/ Validate
    \/ LoadFile
    \/ LoadFileRaises
    \/ CountTokens
    \/ CountTokensRaises
    \/ SelectParser
    \/ NativeRaises
    \/ NativePage
    \/ NativePageFails
    \/ NativeJoin
    \/ CheckBinary
    \/ ReturnNative
    \/ FallBack
    \/ OcrReadImages
    \/ OcrPage
    \/ OcrPageFails
    \/ OcrEnd
    \/ Finish

Spec == Init /\ [][Next]_vars

(***************************************************************************)
(* Claims about the constructor, checked under Spec.                       *)
(***************************************************************************)
\* The constructor is past _select_parser's test of the token count.
PastSelect == pc \notin {"init", "load", "count", "select", "failed"}

\* The control characters (Unicode Cc: C0, DEL, C1) among the characters of
\* the model.
ControlCharacters ==
    {"NUL", "BEL", "BS", "\t", "\n", "VT", "FF", "\r", "SO", "ESC", "US",
     "DEL", "PAD", "APC"}

ContainsForbiddenControl(text) ==
    \E i \in 1..Len(text) : text[i] \in ControlCharacters \ {"\n", "\t", "\r"}

\* A backslash, an x and two hexadecimal digits in a row.
ContainsHexEscape(text) ==
    \E i \in 1..(Len(text) - 3) :
        SubSeq(text, i, i + 3) \in {<<"\\", "x", a, b>> : a, b \in HexDigits}

NativeAccepted == native_attempted /\ ~native_raised /\ binary = "clean"

\* C1: the native parser is returned (parse_method "TEXT-PDF") if and only if
\* the native attempt was made, it did not raise, and its text holds neither a
\* \xNN escape nor a control character other than \n, \t, \r; in every other
\* case the OCR parser is returned, parse_method is "IMAGE-PDF", and no
\* exception leaves the constructor.
C1_SelectionRule ==
    /\ pc = "native_checked" =>
          (binary = "clean" <=> (/\ ~ContainsHexEscape(tp_raw_text)
                                 /\ ~ContainsForbiddenControl(tp_raw_text)))
    /\ pc \in {"finish", "done"} =>
          /\ parser = IF NativeAccepted THEN "TextualParser" ELSE "VisualParser"
          /\ parser = "TextualParser" =>
                /\ ~ContainsHexEscape(tp_raw_text)
                /\ ~ContainsForbiddenControl(tp_raw_text)
    /\ pc = "done" => parse_method = IF NativeAccepted THEN "TEXT-PDF" ELSE "IMAGE-PDF"
    /\ PastSelect => error = "none"

\* A native text with a \xNN escape and no control character, from a native
\* attempt that did not raise, is found binary.
C1_Witness ==
    /\ pc = "native_checked"
    /\ native_attempted /\ ~native_raised
    /\ ContainsHexEscape(tp_raw_text)
    /\ ~ContainsForbiddenControl(tp_raw_text)
    /\ binary = "binary"

\* C2 as stated: the native attempt is skipped exactly when the token count is
\* below the threshold, and made for every count equal to or above it.
C2_SkipsBelowThreshold ==
    PastSelect => (native_attempted <=> n_tokens >= token_threshold)

\* C2 as amended: the native attempt is skipped, and the constructor goes
\* straight to the OCR parser, exactly when the token count is at or below the
\* threshold; it is made for every count strictly above it.
C2_SkipsAtOrBelowThreshold ==
    PastSelect =>
        /\ native_attempted <=> n_tokens > token_threshold
        /\ n_tokens <= token_threshold =>
              /\ pc \in {"ocr_images", "ocr", "finish", "done"}
              /\ tp_log = <<>> /\ tp_raw_text = <<>> /\ binary = "none"
              /\ parser # "TextualParser"

\* The token count equals the threshold and the OCR loop runs without a native
\* attempt before it.
C2_Witness ==
    /\ pc = "ocr"
    /\ n_tokens = token_threshold
    /\ ~native_attempted
    /\ vp_page > 0

\* The extension of the path, compared case-insensitively, is .pdf.
HasPdfExtension(path) ==
    splitext_ext(path) \in
        {<<".", p, d, f>> : p \in {"p", "P"}, d \in {"d", "D"}, f \in {"f", "F"}}

\* C3: with a path whose extension is not .pdf the constructor fails at once
\* with an error: the file is not loaded, no tokens are counted, neither
\* parser is started, and nothing is produced.
C3_RejectsNonPdf ==
    ~HasPdfExtension(file_path) =>
        /\ pc \in {"init", "failed"}
        /\ pc = "failed" => error = "ValueError"
        /\ ~file_loaded /\ n_tokens = 0 /\ n_pages = 0
        /\ ~native_attempted /\ tp_log = <<>> /\ vp_log = <<>> /\ vp_images = 0
        /\ parser = "none" /\ parse_method = "none"
        /\ pages_text = <<>> /\ raw_text = <<>>

\* A path that holds ".pdf" but has another extension was rejected.
C3_Witness ==
    /\ pc = "failed"
    /\ error = "ValueError"
    /\ file_path = <<"a", ".", "p", "d", "f", "x">>

\* Comparisons of numbers that may be NaN: every comparison with NaN is false.
FEq(a, b) == ~a.nan /\ ~b.nan /\ a.val = b.val

FGt(a, b) == ~a.nan /\ ~b.nan /\ a.val > b.val

\* The pages of the native loop that were processed, in document order.
ProcessedPages == SelectSeq(tp_log, LAMBDA e : ~e.failed)

\* C4 as stated: after each processed page the running offset is one more than
\* the largest stitched row index of that page, and every row index of a later
\* page is strictly greater than every row index of an earlier page.
C4_RowsStitchedInOrder ==
    LET done == ProcessedPages IN
    /\ \A k \in 1..Len(done) :
          done[k].y_index # <<>> =>
              FEq(done[k].y_offset, FAdd(SeriesMax(done[k].y_index), Num(1)))
    /\ \A k1 \in 1..Len(done) : \A k2 \in (k1 + 1)..Len(done) :
          \A i \in 1..Len(done[k1].y_index) : \A j \in 1..Len(done[k2].y_index) :
              FGt(done[k2].y_index[j], done[k1].y_index[i])

\* The same with no page without words among the processed pages.
C4_RowsStitchedWhenNoPageIsEmpty ==
    (\A k \in 1..Len(ProcessedPages) : ProcessedPages[k].words # <<>>)
        => C4_RowsStitchedInOrder

\* The text of a page rendered as the first page of a document.
RenderedAlone(words) ==
    format_text_by_grid_position(
        add_y_offset(
            get_binned_coords_dataframe(
                extract_rows_from_page(words, vertical_threshold_arg,
                                       horizontal_threshold_arg)),
            Num(0)))

\* C16 as stated: whatever pages come before it (with words, without words,
\* failing), the text of each processed page is the text the same page gets
\* when it is rendered as the first page, with offset 0.
C16_PageTextIgnoresOffset ==
    pc = "native" =>
        /\ Len(tp_local_pages_text) = Len(ProcessedPages)
        /\ \A k \in 1..Len(ProcessedPages) :
              tp_local_pages_text[k] = RenderedAlone(ProcessedPages[k].words)

\* The same with no page without words among the processed pages.
C16_PageTextIgnoresOffsetWhenNoPageIsEmpty ==
    (\A k \in 1..Len(ProcessedPages) : ProcessedPages[k].words # <<>>)
        => C16_PageTextIgnoresOffset

\* The texts the native loop produces for the logged pages: failed pages
\* produce none, and the offset moves on only over processed pages.
RECURSIVE native_texts_of(_, _)
native_texts_of(log, y_offset) ==
    IF log = <<>> THEN <<>>
    ELSE IF Head(log).failed THEN native_texts_of(Tail(log), y_offset)
    ELSE LET df == add_y_offset(
                       get_binned_coords_dataframe(
                           extract_rows_from_page(Head(log).words, vertical_threshold_arg,
                                                  horizontal_threshold_arg)),
                       y_offset)
         IN  <<grid_text(grid_lines(df))>> \o native_texts_of(Tail(log), next_y_offset(df))

\* The texts the OCR loop produces for the logged images.
RECURSIVE ocr_texts_of(_)
ocr_texts_of(log) ==
    IF log = <<>> THEN <<>>
    ELSE IF Head(log).failed THEN ocr_texts_of(Tail(log))
    ELSE <<ocr_page_text(Head(log).image)>> \o ocr_texts_of(Tail(log))

\* C5: a page whose processing raises is skipped, and the loop goes on; the
\* list of page texts holds exactly the texts of the pages that did not fail,
\* in document order, in the native loop and in the OCR loop.
C5_FailedPagesSkipped ==
    /\ pc = "native" =>
          /\ Len(tp_log) = tp_page
          /\ tp_local_pages_text = native_texts_of(tp_log, Num(0))
    /\ (pc \in {"native_built", "native_checked"} \/ parser = "TextualParser") =>
          /\ Len(tp_log) = native_page_count
          /\ tp_pages_text = native_texts_of(tp_log, Num(0))
    /\ pc = "ocr" =>
          /\ Len(vp_log) = vp_page
          /\ vp_page_texts = ocr_texts_of(vp_log)
    /\ parser = "VisualParser" =>
          /\ ~ocr_loop_goes_on
          /\ vp_pages_text = ocr_texts_of(vp_log)
    /\ pc = "done" =>
          pages_text = IF parser = "TextualParser"
                       THEN native_texts_of(tp_log, Num(0))
                       ELSE ocr_texts_of(vp_log)

\* The native parser is returned for a document whose second page failed
\* between two pages that were processed.
C5_Witness ==
    /\ pc = "done"
    /\ parser = "TextualParser"
    /\ Len(tp_log) = 3
    /\ ~tp_log[1].failed /\ tp_log[2].failed /\ ~tp_log[3].failed
    /\ Len(pages_text) = 2

\* text.split(sep)
RECURSIVE split_loop(_, _, _, _)
split_loop(text, sep, current, parts) ==
    IF Len(text) < Len(sep) THEN Append(parts, current \o text)
    ELSE IF SubSeq(text, 1, Len(sep)) = sep
         THEN split_loop(SubSeq(text, Len(sep) + 1, Len(text)), sep, <<>>,
                         Append(parts, current))
         ELSE split_loop(Tail(text), sep, Append(current, Head(text)), parts)

Split(text, sep) == split_loop(text, sep, <<>>, <<>>)

ContainsDelimiter(text) ==
    \E i \in 1..(Len(text) - Len(page_delimiter) + 1) :
        SubSeq(text, i, i + Len(page_delimiter) - 1) = page_delimiter

\* C6 as stated: the raw text of the selected parser is its page texts joined
\* with the page delimiter, and splitting it on the delimiter gives the page
\* texts back when there is at least one and none contains the delimiter.
C6_RawTextIsJoinedPages ==
    LET sel_pages == IF parser = "TextualParser" THEN tp_pages_text ELSE vp_pages_text
        sel_raw == IF parser = "TextualParser" THEN tp_raw_text ELSE vp_raw_text
    IN  parser # "none" =>
            /\ sel_raw = Join(sel_pages, page_delimiter)
            /\ (/\ sel_pages # <<>>
                /\ \A k \in 1..Len(sel_pages) : ~ContainsDelimiter(sel_pages[k]))
                   => Split(sel_raw, page_delimiter) = sel_pages

\* The same for the native parser alone.
C6_NativeRawTextIsJoinedPages ==
    parser = "TextualParser" => C6_RawTextIsJoinedPages

\* The images of the OCR loop that were processed, in order; vp_page_texts
\* holds one text for each.
ProcessedImages == SelectSeq(vp_log, LAMBDA e : ~e.failed)

\* Rows of image_to_data that are kept: confidence not -1 and a text.
KeptRows(image) == SelectSeq(image.data, LAMBDA r : r.conf # -1 /\ ~r.null)

\* Of those, the rows whose text is not empty after trimming.
NonBlankRows(image) == SelectSeq(KeptRows(image), LAMBDA r : strip(r.text) # <<>>)

PlainTranscription(image) == Lower(strip(image.plain))

StructuredReconstruction(image) == reconstruct_text_from_df(KeptRows(image))

\* C13 as stated: the page text is the plain lower-cased transcription when
\* fewer than 10 rows are kept and non-blank after trimming, and the
\* structured reconstruction when 10 or more are.
C13_CountsNonBlankRows ==
    pc = "ocr" =>
        /\ Len(vp_page_texts) = Len(ProcessedImages)
        /\ \A k \in 1..Len(ProcessedImages) :
              LET image == ProcessedImages[k].image IN
              vp_page_texts[k] = IF Len(NonBlankRows(image)) < min_ocr_rows
                                 THEN PlainTranscription(image)
                                 ELSE StructuredReconstruction(image)

\* C13 as amended: the page text is the plain lower-cased transcription when
\* fewer than 10 rows are kept (confidence not -1, text not null; a row whose
\* text is blank counts), and the structured reconstruction when 10 or more
\* are.
C13_CountsKeptRows ==
    pc = "ocr" =>
        /\ Len(vp_page_texts) = Len(ProcessedImages)
        /\ \A k \in 1..Len(ProcessedImages) :
              LET image == ProcessedImages[k].image IN
              vp_page_texts[k] = IF Len(KeptRows(image)) < min_ocr_rows
                                 THEN PlainTranscription(image)
                                 ELSE StructuredReconstruction(image)

\* An image with 10 kept rows of which one is blank got the structured
\* reconstruction, which is not its plain transcription.
C13_Witness ==
    /\ pc = "ocr"
    /\ \E k \in 1..Len(ProcessedImages) :
          LET image == ProcessedImages[k].image IN
          /\ k <= Len(vp_page_texts)
          /\ Len(KeptRows(image)) = min_ocr_rows
          /\ Len(NonBlankRows(image)) = min_ocr_rows - 1
          /\ vp_page_texts[k] = StructuredReconstruction(image)
          /\ vp_page_texts[k] # PlainTranscription(image)

\* C19 as stated: when the native parser is returned (parse_method
\* "TEXT-PDF") for a document with at least one page, at least one page was
\* reconstructed by the native loop and pages_text is not empty; when every
\* page of the native loop fails, the OCR parser is returned.
C19_NativeResultHasAPage ==
    /\ (pc = "done" /\ parse_method = "TEXT-PDF" /\ n_pages >= 1) =>
          /\ pages_text # <<>>
          /\ \E k \in 1..Len(tp_log) : ~tp_log[k].failed
    /\ (pc \in {"finish", "done"} /\ native_attempted /\ n_pages >= 1
           /\ tp_log # <<>> /\ \A k \in 1..Len(tp_log) : tp_log[k].failed) =>
          parser = "VisualParser"

\* The same for the documents of which the native loop processed a page.
C19_NativeResultHasAPageWhenOneWasProcessed ==
    (pc = "done" /\ parse_method = "TEXT-PDF" /\ \E k \in 1..Len(tp_log) : ~tp_log[k].failed)
        => pages_text # <<>>

(***************************************************************************)
(* Claims about TableExtractor.extract_from_pages, checked under           *)
(* SpecTables.                                                             *)
(***************************************************************************)
\* The tables of a page that have at least row_threshold rows.
AcceptedTables(page_tables) ==
    SelectSeq(page_tables, LAMBDA t : t.rows >= row_threshold)

\* The column list of the last accepted table of the pages 1..i of the log,
\* empty when they have none.
RECURSIVE LastAcceptedColumns(_)
LastAcceptedColumns(i) ==
    IF i = 0 THEN <<>>
    ELSE LET accepted == AcceptedTables(te_log[i].page_tables) IN
         IF accepted # <<>> THEN Last(accepted).columns ELSE LastAcceptedColumns(i - 1)

\* C14 as stated: the hint passed for page i is the column list of the last
\* table of page i-1 with at least row_threshold rows; it is empty for the
\* first page and whenever page i-1 gave no such table; tables with fewer
\* rows are discarded.
C14_HintFromPreviousPage ==
    /\ \A i \in 1..Len(te_log) :
          te_log[i].previous_columns =
              IF i = 1 THEN <<>>
              ELSE LET accepted == AcceptedTables(te_log[i - 1].page_tables) IN
                   IF accepted # <<>> THEN Last(accepted).columns ELSE <<>>
    /\ \A k \in 1..Len(te_all_tables) : te_all_tables[k].rows >= row_threshold

\* What the loop does: the hint for page i is the column list of the last
\* accepted table of all the pages before it.
C14_HintFromLastAcceptedTable ==
    /\ \A i \in 1..Len(te_log) : te_log[i].previous_columns = LastAcceptedColumns(i - 1)
    /\ \A k \in 1..Len(te_all_tables) : te_all_tables[k].rows >= row_threshold

(***************************************************************************)
(* Claims about extract_rows_from_page, checked under SpecRows.            *)
(***************************************************************************)
\* The partition raw_cells describes: the rows in order, each row's cells in
\* order, each cell the set of its words.
PartitionOf(cells) ==
    [l \in 1..Len(cells) |-> [c \in 1..Len(cells[l]) |-> Range(cells[l][c])]]

\* The words in the order f puts them in.
Reordered(words, f) == [i \in 1..Len(words) |-> words[f[i]]]

\* C12: the partition of a page's words into rows, and of each row into
\* cells, is the same for every order in which the same words are given, also
\* when words share a top or an x0.
C12_SamePartitionInEveryOrder ==
    rw_pc = "rows" =>
        \A f \in Permutations(1..Len(rw_words)) :
            PartitionOf(raw_cells_of(Reordered(rw_words, f), vertical_threshold_arg,
                                     horizontal_threshold_arg))
                = PartitionOf(rw_cells)

\* Three words, not given in the order of their tops, two of them with the
\* same top and the same x0, in more than one row.
C12_Witness ==
    /\ rw_pc = "rows"
    /\ Len(rw_words) = 3
    /\ rw_words[1].top = rw_words[2].top
    /\ rw_words[1].x0 = rw_words[2].x0
    /\ rw_words[3].top < rw_words[1].top
    /\ Len(rw_cells) = 2

(***************************************************************************)
(* Claims about one page, checked under SpecPage.                          *)
(***************************************************************************)
\* C7: on every rendered line, of any two words placed one after the other
\* the first ends at or before the offset where the second starts, and the
\* line holds every character of every word at its offset (those that fall
\* within the line width): no word overwrites another.
C7_NoOverlap ==
    pg_pc = "formatted" =>
        \A l \in 1..Len(pg_grid) :
            LET placed == pg_grid[l].placed
                line == pg_grid[l].line
            IN  /\ \A k \in 1..(Len(placed) - 1) : placed[k].end <= placed[k + 1].start
                /\ \A k \in 1..Len(placed) :
                      \A j \in 1..Len(placed[k].text) :
                          placed[k].start + j <= format__line_length =>
                              line[placed[k].start + j] = placed[k].text[j]

\* Two words of the same column index on one line, the second running over
\* the line width.
C7_Witness ==
    /\ pg_pc = "formatted"
    /\ \E l \in 1..Len(pg_grid) :
          LET placed == pg_grid[l].placed IN
          /\ Len(placed) >= 2
          /\ placed[1].target = placed[2].target
          /\ placed[2].start < format__line_length
          /\ placed[2].end > format__line_length

\* The cursor when the k-th word of a line is placed: where the word before
\* it ended, 0 for the first word.
CursorBefore(placed, k) == IF k = 1 THEN 0 ELSE placed[k - 1].end

\* Column rank times column spacing.
TargetOfColumn(x_index) ==
    format__column_spacing
        * Cardinality({x \in {pg_df[i].x_index : i \in 1..Len(pg_df)} : x < x_index})

GapBetween(first, second) == second[2] - first[3]

\* The cells of a row fused wherever Close holds of the gap between two
\* neighbours: every maximal run of close neighbours becomes one cell, with
\* the texts joined by single spaces, the left edge of its first cell, the
\* right edge of its last, and the top and bottom of its first.
FusedRow(row, Close(_)) ==
    LET starts == SortedSet({1} \cup {k + 1 : k \in {k \in 1..(Len(row) - 1) :
                                          ~Close(GapBetween(row[k], row[k + 1]))}})
    IN  IF row = <<>> THEN <<>>
        ELSE [j \in 1..Len(starts) |->
                LET from == starts[j]
                    to == IF j < Len(starts) THEN starts[j + 1] - 1 ELSE Len(row)
                IN  << Join([k \in 1..(to - from + 1) |-> row[from + k - 1][1]], <<" ">>),
                       row[from][2], row[to][3], row[from][4], row[from][5] >>]

\* The x, y and text columns of the frame made of the fused rows, and the x
\* bins computed from them.
FrameOfFused(rows, Close(_)) ==
    LET cells == Concat([r \in 1..Len(rows) |-> FusedRow(rows[r], Close)])
        x_bins == group_coords([i \in 1..Len(cells) |-> cells[i][2]])
    IN  [i \in 1..Len(cells) |->
            [x |-> cells[i][2], y |-> cells[i][4], text |-> cells[i][1],
             x_bin |-> map_to_bin(cells[i][2], x_bins)]]

FrameColumns ==
    [i \in 1..Len(pg_df) |->
        [x |-> pg_df[i].x, y |-> pg_df[i].y, text |-> pg_df[i].text,
         x_bin |-> pg_df[i].x_bin]]

\* C17 as stated: two neighbouring cells of a row are fused exactly when the
\* gap between them is strictly below the word spacing (4), cells with a gap
\* of 4 or more stay separate, and the column bins are computed from the
\* fused cells.
C17_FusedBelowSpacing ==
    pg_pc \in {"binned", "formatted"} =>
        FrameColumns = FrameOfFused(pg_rows, LAMBDA gap : gap < word_spacing)

\* C17 as amended: two neighbouring cells of a row are fused exactly when the
\* gap between them (as an absolute value) is at or below the word spacing
\* (4), cells with a gap above 4 stay separate, and the column bins are
\* computed from the fused cells.
C17_FusedAtOrBelowSpacing ==
    pg_pc \in {"binned", "formatted"} =>
        FrameColumns = FrameOfFused(pg_rows, LAMBDA gap : Abs(gap) <= word_spacing)

\* A row of two cells whose gap is exactly the word spacing became one word
\* of the frame.
C17_Witness ==
    /\ pg_pc = "binned"
    /\ Len(pg_rows) = 1
    /\ Len(pg_rows[1]) = 2
    /\ GapBetween(pg_rows[1][1], pg_rows[1][2]) = word_spacing
    /\ Len(pg_df) = 1
    /\ pg_df[1].text = pg_rows[1][1][1] \o <<" ">> \o pg_rows[1][2][1]

(***************************************************************************)
(* Claims about the binner, checked under SpecBin.                         *)
(***************************************************************************)
\* C8: mapping a bin that group_coords produced back through map_to_bin, with
\* the list of bins it came from, returns that bin itself.
C8_BinIdempotent ==
    (bin_pc = "mapped" /\ bin_val \in Range(bin_bins)) => bin_result = bin_val

\* A later bin is mapped back (an earlier bin is tried first and must not
\* capture it).
C8_Witness ==
    /\ bin_pc = "mapped"
    /\ Len(bin_bins) >= 2
    /\ bin_val = bin_bins[2]
    /\ bin_result = bin_val

\* C9: the bin centers group_coords returns, for integer coordinates given in
\* any order, are strictly ascending, without duplicates, and consecutive
\* centers differ by more than the tolerance.
C9_BinsAscending ==
    bin_pc # "input" =>
        /\ \A i \in 1..(Len(bin_bins) - 1) :
              /\ bin_bins[i] < bin_bins[i + 1]
              /\ bin_bins[i + 1] - bin_bins[i] > inaccuracy_threshold
        /\ \A i, j \in 1..Len(bin_bins) : bin_bins[i] = bin_bins[j] => i = j

\* Several bins from a list that was not given in ascending order.
C9_Witness ==
    /\ bin_pc = "grouped"
    /\ Len(bin_bins) >= 2
    /\ bin_values # SortedInts(bin_values)

\* A value is further than the tolerance from the mean of the members before
\* it in its group.
FarFromRunningMean(g, k) ==
    Abs(g[k] * (k - 1) - Sum(SubSeq(g, 1, k - 1))) > inaccuracy_threshold * (k - 1)

\* C11 as stated: scanning the sorted coordinates, a value joins the last bin
\* exactly when it is within the tolerance of the running mean of that bin's
\* members so far, and starts a new bin exactly when it is further away.
C11_GapToRunningMean ==
    bin_pc # "input" =>
        /\ Concat(bin_groups) = SortedInts(bin_values)
        /\ \A i \in 1..Len(bin_groups) :
              /\ bin_groups[i] # <<>>
              /\ \A k \in 2..Len(bin_groups[i]) : ~FarFromRunningMean(bin_groups[i], k)
              /\ i > 1 =>
                    Abs(bin_groups[i][1] * Len(bin_groups[i - 1]) - Sum(bin_groups[i - 1]))
                        > inaccuracy_threshold * Len(bin_groups[i - 1])

\* C11 as amended: scanning the sorted coordinates, a value joins the last bin
\* exactly when it is within the tolerance of the last (largest) member of
\* that bin, and starts a new bin exactly when it is further away from it.
C11_GapToLastMember ==
    bin_pc # "input" =>
        /\ Concat(bin_groups) = SortedInts(bin_values)
        /\ \A i \in 1..Len(bin_groups) :
              /\ bin_groups[i] # <<>>
              /\ \A k \in 2..Len(bin_groups[i]) :
                    bin_groups[i][k] - bin_groups[i][k - 1] <= inaccuracy_threshold
              /\ i > 1 =>
                    bin_groups[i][1] - Last(bin_groups[i - 1]) > inaccuracy_threshold

\* A value joined a bin although it is further than the tolerance from the
\* mean of the members that were in it.
C11_Witness ==
    /\ bin_pc = "grouped"
    /\ \E i \in 1..Len(bin_groups) : \E k \in 2..Len(bin_groups[i]) :
          FarFromRunningMean(bin_groups[i], k)

\* The cluster group_coords put the k-th coordinate in.
ClusterOf(k) ==
    CHOOSE c \in 1..Len(bin_groups) : bin_values[k] \in Range(bin_groups[c])

\* C18 as stated: every coordinate is mapped to the center of its cluster, so
\* coordinates of one cluster get the same index, and there are as many
\* distinct indices as bins.
C18_MappedToClusterCenter ==
    bin_pc = "indexed" =>
        /\ Len(bin_frame) = Len(bin_values)
        /\ \A k \in 1..Len(bin_frame) :
              /\ bin_frame[k].x = bin_values[k]
              /\ bin_frame[k].x_bin = bin_bins[ClusterOf(k)]
        /\ \A k1, k2 \in 1..Len(bin_frame) :
              ClusterOf(k1) = ClusterOf(k2) => bin_frame[k1].x_index = bin_frame[k2].x_index
        /\ Cardinality({bin_frame[k].x_index : k \in 1..Len(bin_frame)}) = Len(bin_bins)

\* C18 as amended: a coordinate is mapped to the center of its cluster when
\* it is within 5 of that center and is kept unchanged when it is not; the
\* indices are the ranks of the mapped values, so coordinates of one cluster
\* that are within 5 of its center get the same index, and there are as many
\* distinct indices as distinct mapped values, never fewer than one per bin
\* that has a coordinate within 5 of its center.
C18_MappedToCenterWithinTolerance ==
    bin_pc = "indexed" =>
        LET n == Len(bin_frame)
            near(k) == Abs(bin_values[k] - bin_bins[ClusterOf(k)]) <= map_tolerance
            mapped == {bin_frame[k].x_bin : k \in 1..n}
        IN  /\ n = Len(bin_values)
            /\ \A k \in 1..n :
                  /\ bin_frame[k].x = bin_values[k]
                  /\ bin_frame[k].x_bin =
                        IF near(k) THEN bin_bins[ClusterOf(k)] ELSE bin_values[k]
                  /\ bin_frame[k].x_index =
                        Cardinality({m \in mapped : m < bin_frame[k].x_bin})
            /\ \A k1, k2 \in 1..n :
                  (ClusterOf(k1) = ClusterOf(k2) /\ near(k1) /\ near(k2))
                      => bin_frame[k1].x_index = bin_frame[k2].x_index
            /\ Cardinality({bin_frame[k].x_index : k \in 1..n}) = Cardinality(mapped)
            /\ Cardinality(mapped) >=
                  Cardinality({ClusterOf(k) : k \in {j \in 1..n : near(j)}})

\* One cluster whose first coordinate is more than 5 from its center: it is
\* kept unchanged, and there are more indices than bins.
C18_Witness ==
    /\ bin_pc = "indexed"
    /\ Len(bin_bins) = 1
    /\ \E k \in 1..Len(bin_frame) :
          /\ Abs(bin_values[k] - bin_bins[1]) > map_tolerance
          /\ bin_frame[k].x_bin = bin_values[k]
    /\ Cardinality({bin_frame[k].x_index : k \in 1..Len(bin_frame)}) > 1

\* C10 as stated: every bin center equals the arithmetic mean of its members.
C10_ExactMean ==
    bin_pc # "input" =>
        \A i \in 1..Len(bin_bins) :
            bin_bins[i] * Len(bin_groups[i]) = Sum(bin_groups[i])

\* C10 as amended: every bin center is the arithmetic mean of its members with
\* the fraction dropped (rounded toward zero): it lies between 0 and the mean
\* and is less than 1 away from it.
C10_TruncatedMean ==
    bin_pc # "input" =>
        /\ Len(bin_bins) = Len(bin_groups)
        /\ \A i \in 1..Len(bin_bins) :
              LET n == Len(bin_groups[i])
                  s == Sum(bin_groups[i])
                  c == bin_bins[i]
              IN  IF s >= 0
                  THEN c >= 0 /\ n * c <= s /\ s < n * (c + 1)
                  ELSE c <= 0 /\ n * (c - 1) < s /\ s <= n * c

\* A bin whose members have a negative mean that is no integer.
C10_Witness ==
    /\ bin_pc = "grouped"
    /\ \E i \in 1..Len(bin_bins) :
          /\ Sum(bin_groups[i]) < 0
          /\ bin_bins[i] * Len(bin_groups[i]) # Sum(bin_groups[i])

=============================================================================
